---- MODULE Spec2Model ----
(***************************************************************************)
(* Model of the three evaluation scripts (CatBoost, AdaBoost, LightGBM):   *)
(* scaling, the single train/test split, the Bayesian hyper-parameter      *)
(* search, the refit and held-out evaluation, and the repeated K-fold      *)
(* evaluation loop.  Samples are the row indices 0..N-1; a fitted model is *)
(* represented by the set of rows it was last fitted on, a metric value by *)
(* the fold it was computed from.                                          *)
(***************************************************************************)
EXTENDS Integers, Sequences, FiniteSets, TLC

VARIABLES
    script,       \* which of the three scripts runs
    N,            \* number of rows of the data set (data.iloc)
    pc,           \* position of the script
    np_random,    \* state of the process-wide numpy generator (np.random.seed(1))
    scaler,       \* rows the StandardScaler statistics were fitted on
    train_idx,    \* rows of X_train, in X_train's row order
    test_idx,     \* rows of X_test, in X_test's row order
    cv_results,   \* optimizer trials, in order: [params, score]
    cv_calls,     \* every K-fold split call made so far: arguments, generator state, folds
    best_params,  \* optimizer.best_params_
    optimized,    \* the *_optimized estimator object: [params, fitted, rows, fits]
    fit_log,      \* every backend fit call so far: [obj, rows]
    heldout,      \* the single held-out evaluation: [model_rows, train_rows, test_rows]
    sink,         \* sheets handed to the Excel writer
    kf,           \* the KFold object of the evaluation loop
    metrics,      \* the metrics dict: column -> list of values
    i,            \* outer loop counter (for i in range(...))
    folds,        \* the folds kf.split yielded for the current repetition
    f,            \* number of folds of the current repetition already consumed
    raised,       \* the exception that ended the script, if any
    explainer     \* rows of the model state shap.TreeExplainer was built from

vars == << script, N, pc, np_random, scaler, train_idx, test_idx, cv_results,
           cv_calls, best_params, optimized, fit_log, heldout, sink, kf,
           metrics, i, folds, f, raised, explainer >>

(***************************************************************************)
(* Bounds of the model.                                                    *)
(***************************************************************************)
\* largest data set considered
MaxN == 8
\* trials of one optimizer run (n_iter=32 in the scripts, scaled down)
MaxTrials == 3
\* outer repetitions of the evaluation loop (range(1000) in the scripts, scaled down)
MaxRepetitions == 2

(***************************************************************************)
(* Constants of the scripts.                                               *)
(***************************************************************************)
\* random_state=1 / np.random.seed(1)
Seed == 1
\* KFold(n_splits=5, ...)
n_splits == 5
\* BayesSearchCV(..., cv=5)
cv == 5
\* test_size=0.2, in percent
test_size == 20

Scripts == {"CatBoost", "AdaBoost", "LGBM"}

Range(s) == {s[j] : j \in DOMAIN s}

Rows(n) == 0 .. (n - 1)

(***************************************************************************)
(* Pseudo-random generator.  A generator state is a natural number; a      *)
(* small linear congruential step stands for the Mersenne twister.  None   *)
(* is <<>>, an integer seed s is <<s>>.                                    *)
(***************************************************************************)
RandomState(seed) == seed % 64

NextRng(s) == (s * 13 + 7) % 64

\* rng.randint(0, bound): the value drawn in state s
RandInt(s, bound) == (NextRng(s) \div 3) % bound

Swap(seq, a, b) ==
    [j \in DOMAIN seq |-> IF j = a THEN seq[b] ELSE IF j = b THEN seq[a] ELSE seq[j]]

\* RandomState.shuffle: for k in reversed(range(1, n)): j = randint(0, k+1); swap
RECURSIVE ShuffleFrom(_, _, _)
ShuffleFrom(seq, k, s) ==
    IF k < 1 THEN [perm |-> seq, state |-> s]
    ELSE ShuffleFrom(Swap(seq, k + 1, RandInt(s, k + 1) + 1), k - 1, NextRng(s))

\* rng.permutation(n) == shuffle(arange(n))
Permutation(n, s) == ShuffleFrom([j \in 1..n |-> j - 1], n - 1, s)

\* sklearn.utils.check_random_state: None -> the global generator, int -> a fresh one
\* faulty variant: an integer seed is ignored and the global generator is used
check_random_state_UsesGlobal(random_state, global) ==
    [global |-> TRUE, state |-> global]

check_random_state(random_state, global) ==
    IF random_state = <<>>
    THEN [global |-> TRUE, state |-> global]
    ELSE [global |-> FALSE, state |-> RandomState(random_state[1])]

\* the process-wide generator after a call that drew from rng and left it in `after`
GlobalAfter(rng, global, after) == IF rng.global THEN after ELSE global

(***************************************************************************)
(* Partitioner: sklearn KFold and train_test_split.                        *)
(***************************************************************************)
Min(a, b) == IF a < b THEN a ELSE b

\* fold_sizes = full(n_splits, n // n_splits); fold_sizes[:n % n_splits] += 1
\* faulty variant: the n % n_splits remaining rows are not distributed
FoldSize_NoRemainder(n, k, j) == n \div k

FoldSize(n, k, j) == (n \div k) + (IF j < n % k THEN 1 ELSE 0)

FoldStart(n, k, j) == j * (n \div k) + Min(j, n % k)

\* KFold.split(X) over n rows: the k (train_index, test_index) pairs in order,
\* and the generator state the shuffle ends in
KFoldSplit(kfold, n, global) ==
    LET rng == check_random_state(kfold.random_state, global)
        arange == [j \in 1..n |-> j - 1]
        sh == IF kfold.shuffle
              THEN ShuffleFrom(arange, n - 1, rng.state)
              ELSE [perm |-> arange, state |-> rng.state]
        k == kfold.n_splits
        TestOf(j) == {sh.perm[p] : p \in (FoldStart(n, k, j) + 1) ..
                                        (FoldStart(n, k, j) + FoldSize(n, k, j))}
    IN  [folds  |-> [j \in 1..k |-> [test  |-> TestOf(j - 1),
                                     train |-> Rows(n) \ TestOf(j - 1)]],
         global |-> GlobalAfter(rng, global, sh.state)]

\* one entry of cv_calls
SplitCall(kfold, n, global) ==
    [n_splits |-> kfold.n_splits, shuffle |-> kfold.shuffle,
     random_state |-> kfold.random_state, n |-> n, global |-> global,
     folds |-> KFoldSplit(kfold, n, global).folds]

\* train_test_split: n_test = ceil(test_size * n), n_train = n - n_test
NTest(n) == (n * test_size + 99) \div 100

NTrain(n) == n - NTest(n)

\* ShuffleSplit: permutation = rng.permutation(n); test = first n_test, train = the rest
TrainTestSplit(n, random_state, global) ==
    LET rng == check_random_state(random_state, global)
        sh == Permutation(n, rng.state)
    IN  [test   |-> SubSeq(sh.perm, 1, NTest(n)),
         train  |-> SubSeq(sh.perm, NTest(n) + 1, n),
         global |-> GlobalAfter(rng, global, sh.state)]

(***************************************************************************)
(* Search spaces.  Real bounds are held in hundredths (0.01 is 1).         *)
(***************************************************************************)
Dim(kind, low, high) == [kind |-> kind, low |-> low, high |-> high]

param_spaces(sc) ==
    IF sc = "CatBoost" THEN
        [learning_rate |-> Dim("uniform", 1, 100),
         depth         |-> Dim("integer", 1, 10),
         l2_leaf_reg   |-> Dim("uniform", 10, 1000),
         rsm           |-> Dim("uniform", 50, 100)]
    ELSE IF sc = "AdaBoost" THEN
        [n_estimators              |-> Dim("integer", 50, 500),
         learning_rate             |-> Dim("uniform", 1, 200),
         base_estimator__max_depth |-> Dim("integer", 1, 10)]
    ELSE
        [n_estimators      |-> Dim("integer", 100, 1000),
         max_depth         |-> Dim("integer", 3, 30),
         num_leaves        |-> Dim("integer", 10, 100),
         learning_rate     |-> Dim("log-uniform", 1, 30),
         min_child_samples |-> Dim("integer", 5, 20),
         subsample         |-> Dim("uniform", 50, 100),
         colsample_bytree  |-> Dim("uniform", 50, 100)]

\* BayesSearchCV(..., random_state=...): only the LightGBM script passes one
OptimizerRandomState(sc) == IF sc = "LGBM" THEN <<Seed>> ELSE <<>>

\* BayesSearchCV(..., n_iter=32): the trial budget
n_iter == MaxTrials

\* the outer repetitions of the evaluation loop: range(1000), none in the LightGBM script
Repetitions(sc) == IF sc = "LGBM" THEN 1 ELSE MaxRepetitions

\* points the optimizer may ask for: the two extreme corners of the space
Ask(space) ==
    {[p \in DOMAIN space |-> space[p].low], [p \in DOMAIN space |-> space[p].high]}

\* mean test scores a trial may record (neg_mean_squared_error: never positive)
Scores == {-2, -1}

\* BayesSearchCV's cv=5: check_cv gives KFold(5), unshuffled, no random state
InnerCV == [n_splits |-> cv, shuffle |-> FALSE, random_state |-> <<>>]

\* rows of the data set behind the positions `positions` of X_train
RowsOfTrain(positions) == {train_idx[p + 1] : p \in positions}

\* rows the cross-validation of one trial fits its clones on, one set per inner fold
TrialFitRows(inner) == [j \in DOMAIN inner |-> RowsOfTrain(inner[j].train)]

\* best_index_ = argmin(rank_test_score), ranks by descending score with ties
\* sharing the smallest rank: the first trial of maximal score
\* faulty variant: among trials of equal best score the last one wins
BestIndex_LastMax(results) ==
    CHOOSE b \in DOMAIN results :
        /\ \A j \in DOMAIN results : results[j].score <= results[b].score
        /\ \A j \in DOMAIN results : j > b => results[j].score < results[b].score

BestIndex(results) ==
    CHOOSE b \in DOMAIN results :
        /\ \A j \in DOMAIN results : results[j].score <= results[b].score
        /\ \A j \in DOMAIN results : j < b => results[j].score < results[b].score

Columns == {"train_rmse", "test_rmse", "train_r2", "test_r2", "train_mae", "test_mae"}

NoError == [kind |-> "none", at |-> <<0, 0>>]

Unfitted(params) == [params |-> params, fitted |-> FALSE, rows |-> {}, fits |-> 0]

\* estimator.fit(X[rows], y[rows]) on the object `est`: trains in place
FitInPlace(est, rows) ==
    [est EXCEPT !.fitted = TRUE, !.rows = rows, !.fits = est.fits + 1]

Logged(obj, t, j, rows) == [obj |-> <<obj, t, j>>, rows |-> rows]

(***************************************************************************)
(* The script.  An unbound name is the empty sequence, a bound one a       *)
(* one-element sequence; i is -1 before the loop binds it.                 *)
(***************************************************************************)
Init ==
    /\ script \in Scripts
    /\ N \in 1..MaxN
    /\ pc = "scale"
    /\ np_random = RandomState(Seed)
    /\ scaler = {}
    /\ train_idx = <<>>
    /\ test_idx = <<>>
    /\ cv_results = <<>>
    /\ cv_calls = <<>>
    /\ best_params = <<>>
    /\ optimized = <<>>
    /\ fit_log = <<>>
    /\ heldout = <<>>
    /\ sink = <<>>
    /\ kf = <<>>
    /\ metrics = [c \in Columns |-> <<>>]
    /\ i = -1
    /\ folds = <<>>
    /\ f = 0
    /\ raised = NoError
    /\ explainer = <<>>

\* rows the scaler statistics are computed from: scaler.fit_transform(X)
ScalerRows == Rows(N)

\* scaler = StandardScaler(); X_scaled = scaler.fit_transform(X)
Scale ==
    /\ pc = "scale"
    /\ scaler' = ScalerRows
    /\ pc' = "split"
    /\ UNCHANGED << script, N, np_random, train_idx, test_idx, cv_results, cv_calls,
                    best_params, optimized, fit_log, heldout, sink, kf, metrics,
                    i, folds, f, raised, explainer >>

\* train_test_split(X_scaled, y, test_size=0.2, random_state=1)
Split ==
    /\ pc = "split"
    /\ NTrain(N) >= 1
    /\ LET sp == TrainTestSplit(N, <<Seed>>, np_random)
       IN  /\ train_idx' = sp.train
           /\ test_idx' = sp.test
           /\ np_random' = sp.global
    /\ pc' = "optimize"
    /\ UNCHANGED << script, N, scaler, cv_results, cv_calls, best_params, optimized,
                    fit_log, heldout, sink, kf, metrics, i, folds, f, raised,
                    explainer >>

\* train_test_split raises ValueError when the train set would be empty
SplitInvalid ==
    /\ pc = "split"
    /\ NTrain(N) < 1
    /\ raised' = [kind |-> "ValueError", at |-> <<0, 0>>]
    /\ pc' = "aborted"
    /\ UNCHANGED << script, N, np_random, scaler, train_idx, test_idx, cv_results,
                    cv_calls, best_params, optimized, fit_log, heldout, sink, kf,
                    metrics, i, folds, f, explainer >>

\* optimizer.fit(X_train, y_train), one trial: ask a point, cross-validate it on
\* X_train with cv=5, record its mean score
OptimizerTrial ==
    /\ pc = "optimize"
    /\ Len(train_idx) >= cv
    /\ Len(cv_results) < n_iter
    /\ LET t == Len(cv_results) + 1
           rng == check_random_state(OptimizerRandomState(script), np_random)
           inner == KFoldSplit(InnerCV, Len(train_idx), np_random).folds
           rows == TrialFitRows(inner)
       IN  /\ \E params \in Ask(param_spaces(script)), score \in Scores :
                cv_results' = Append(cv_results, [params |-> params, score |-> score])
           /\ cv_calls' = Append(cv_calls, SplitCall(InnerCV, Len(train_idx), np_random))
           /\ fit_log' = fit_log \o [j \in DOMAIN rows |-> Logged("clone", t, j, rows[j])]
           /\ np_random' = GlobalAfter(rng, np_random, NextRng(np_random))
    /\ UNCHANGED << script, N, pc, scaler, train_idx, test_idx, best_params, optimized,
                    heldout, sink, kf, metrics, i, folds, f, raised, explainer >>

\* KFold(5).split raises ValueError when X_train has fewer than 5 rows
OptimizeInvalid ==
    /\ pc = "optimize"
    /\ Len(train_idx) < cv
    /\ raised' = [kind |-> "ValueError", at |-> <<0, 0>>]
    /\ pc' = "aborted"
    /\ UNCHANGED << script, N, np_random, scaler, train_idx, test_idx, cv_results,
                    cv_calls, best_params, optimized, fit_log, heldout, sink, kf,
                    metrics, i, folds, f, explainer >>

\* end of optimizer.fit: best_index_, best_params_, and the refit of
\* best_estimator_ on all of X_train (refit=True)
OptimizerRefit ==
    /\ pc = "optimize"
    /\ Len(train_idx) >= cv
    /\ Len(cv_results) = n_iter
    /\ best_params' = << cv_results[BestIndex(cv_results)].params >>
    /\ fit_log' = Append(fit_log, Logged("best_estimator_", 0, 0, Range(train_idx)))
    /\ pc' = "final_fit"
    /\ UNCHANGED << script, N, np_random, scaler, train_idx, test_idx, cv_results,
                    cv_calls, optimized, heldout, sink, kf, metrics, i, folds, f,
                    raised, explainer >>

\* rows the optimized model is fitted on before the held-out evaluation
\* faulty variant: the final fit is given X_scaled instead of X_train
FinalFitRows_AllRows == Rows(N)

FinalFitRows == Range(train_idx)

\* *_optimized = Regressor(**best_params, random_state=1); *_optimized.fit(X_train, y_train)
FinalFit ==
    /\ pc = "final_fit"
    /\ optimized' = << FitInPlace(Unfitted(best_params[1]), FinalFitRows) >>
    /\ fit_log' = Append(fit_log, Logged("optimized", 0, 0, FinalFitRows))
    /\ pc' = "evaluate"
    /\ UNCHANGED << script, N, np_random, scaler, train_idx, test_idx, cv_results,
                    cv_calls, best_params, heldout, sink, kf, metrics, i, folds, f,
                    raised, explainer >>

\* y_pred_train = model.predict(X_train); y_pred_test = model.predict(X_test); metrics
Evaluate ==
    /\ pc = "evaluate"
    /\ heldout' = << [model_rows |-> optimized[1].rows,
                      train_rows |-> Range(train_idx),
                      test_rows  |-> Range(test_idx)] >>
    /\ pc' = "export"
    /\ UNCHANGED << script, N, np_random, scaler, train_idx, test_idx, cv_results,
                    cv_calls, best_params, optimized, fit_log, sink, kf, metrics, i,
                    folds, f, raised, explainer >>

\* with pd.ExcelWriter(...): the two result sheets of the held-out evaluation
Export ==
    /\ pc = "export"
    /\ sink' = sink \o << [sheet |-> "Train Results", rows |-> train_idx],
                          [sheet |-> "Test Results", rows |-> test_idx] >>
    /\ pc' = "kfold"
    /\ UNCHANGED << script, N, np_random, scaler, train_idx, test_idx, cv_results,
                    cv_calls, best_params, optimized, fit_log, heldout, kf, metrics,
                    i, folds, f, raised, explainer >>

\* kf = KFold(n_splits=5, shuffle=True, random_state=1); metrics = {... : []}
KFoldInit ==
    /\ pc = "kfold"
    /\ kf' = << [n_splits |-> n_splits, shuffle |-> TRUE, random_state |-> <<Seed>>] >>
    /\ metrics' = [c \in Columns |-> <<>>]
    /\ pc' = "loop"
    /\ UNCHANGED << script, N, np_random, scaler, train_idx, test_idx, cv_results,
                    cv_calls, best_params, optimized, fit_log, heldout, sink, i,
                    folds, f, raised, explainer >>

\* for i in range(...): for train_index, test_index in kf.split(X_scaled):
\* the next repetition starts and kf.split yields its folds
NextRepetition ==
    /\ pc = "loop"
    /\ f = Len(folds)
    /\ i + 1 < Repetitions(script)
    /\ i' = i + 1
    /\ LET sp == KFoldSplit(kf[1], N, np_random)
       IN  /\ folds' = sp.folds
           /\ np_random' = sp.global
    /\ cv_calls' = Append(cv_calls, SplitCall(kf[1], N, np_random))
    /\ f' = 0
    /\ UNCHANGED << script, N, pc, scaler, train_idx, test_idx, cv_results,
                    best_params, optimized, fit_log, heldout, sink, kf, metrics,
                    raised, explainer >>

\* the state of the *_optimized object after the loop body's fit call
\* faulty variant: the loop fits a clone and leaves the object itself untouched
LoopFit_OnClone(est, rows) == est

LoopFit(est, rows) == FitInPlace(est, rows)

\* a metric value: which fit produced the predictions and which rows they are on
Value(rep, fold, model_rows, rows) ==
    [rep |-> rep, fold |-> fold, model_rows |-> model_rows, rows |-> rows]

\* the six metrics[...].append(...) calls of one loop body
\* faulty variant: the test_mae append is missing
AppendMetrics_MissingColumn(m, train_value, test_value) ==
    [c \in Columns |->
        IF c = "test_mae" THEN m[c]
        ELSE IF c \in {"train_rmse", "train_r2", "train_mae"}
             THEN Append(m[c], train_value) ELSE Append(m[c], test_value)]

AppendMetrics(m, train_value, test_value) ==
    [c \in Columns |->
        IF c \in {"train_rmse", "train_r2", "train_mae"}
        THEN Append(m[c], train_value) ELSE Append(m[c], test_value)]

\* one loop body: fit on the fold's train rows, predict both parts, append the metrics
FoldRun ==
    /\ pc = "loop"
    /\ f < Len(folds)
    /\ LET fold == folds[f + 1]
           model == LoopFit(optimized[1], fold.train)
       IN  /\ optimized' = << model >>
           /\ fit_log' = Append(fit_log, Logged("optimized", 0, 0, fold.train))
           /\ metrics' = AppendMetrics(metrics,
                                       Value(i, f, model.rows, fold.train),
                                       Value(i, f, model.rows, fold.test))
    /\ f' = f + 1
    /\ UNCHANGED << script, N, pc, np_random, scaler, train_idx, test_idx, cv_results,
                    cv_calls, best_params, heldout, sink, kf, i, folds, raised,
                    explainer >>

\* the loop body's fit or predict raises: nothing catches it, the script ends
FoldFail ==
    /\ pc = "loop"
    /\ f < Len(folds)
    /\ raised' = [kind |-> "FoldFitFailure", at |-> <<i, f>>]
    /\ pc' = "aborted"
    /\ UNCHANGED << script, N, np_random, scaler, train_idx, test_idx, cv_results,
                    cv_calls, best_params, optimized, fit_log, heldout, sink, kf,
                    metrics, i, folds, f, explainer >>

\* results_df = pd.DataFrame(metrics); results_df.to_excel(...)
Save ==
    /\ pc = "loop"
    /\ f = Len(folds)
    /\ i + 1 = Repetitions(script)
    /\ sink' = Append(sink, [sheet |-> "Model_Evaluation_Results", rows |-> metrics])
    /\ pc' = IF script = "CatBoost" THEN "explain" ELSE "done"
    /\ UNCHANGED << script, N, np_random, scaler, train_idx, test_idx, cv_results,
                    cv_calls, best_params, optimized, fit_log, heldout, kf, metrics,
                    i, folds, f, raised, explainer >>

\* explainer = shap.TreeExplainer(catboost_optimized)
Explain ==
    /\ pc = "explain"
    /\ explainer' = << optimized[1].rows >>
    /\ pc' = "done"
    /\ UNCHANGED << script, N, np_random, scaler, train_idx, test_idx, cv_results,
                    cv_calls, best_params, optimized, fit_log, heldout, sink, kf,
                    metrics, i, folds, f, raised >>

Next ==
    \/ Scale
    \/ Split
    \/ SplitInvalid
    \/ OptimizerTrial
    \/ OptimizeInvalid
    \/ OptimizerRefit
    \/ FinalFit
    \/ Evaluate
    \/ Export
    \/ KFoldInit
    \/ NextRepetition
    \/ FoldRun
    \/ FoldFail
    \/ Save
    \/ Explain

Spec == Init /\ [][Next]_vars

(***************************************************************************)
(* Properties.                                                             *)
(***************************************************************************)
\* the evaluation loop has run to its end and its table was saved
LoopSaved == pc \in {"explain", "done"}

\* the split calls of the evaluation loop (the only shuffled K-fold calls)
LoopCalls == {c \in DOMAIN cv_calls : cv_calls[c].shuffle}

SameArguments(a, b) ==
    /\ a.n_splits = b.n_splits
    /\ a.shuffle = b.shuffle
    /\ a.random_state = b.random_state
    /\ a.n = b.n

\* C1: a repeated-CV run of R repetitions of K folds in which no fold fails ends
\* with exactly R*K entries in each of the six metric columns, the entry at
\* position p being the one of repetition p div K, fold p mod K.
C1_ExactlyRTimesKRecords ==
    LoopSaved =>
        \A c \in Columns :
            /\ Len(metrics[c]) = Repetitions(script) * n_splits
            /\ \A p \in DOMAIN metrics[c] :
                  /\ metrics[c][p].rep = (p - 1) \div n_splits
                  /\ metrics[c][p].fold = (p - 1) % n_splits
            /\ sink[Len(sink)].rows = metrics

C1_Witness ==
    /\ pc = "done"
    /\ Repetitions(script) >= 2
    /\ N >= n_splits
    /\ Len(metrics["test_mae"]) = Repetitions(script) * n_splits

\* C2: two different repetitions of the evaluation loop never use the same
\* K-fold partition (each repetition draws a partition of its own).
C2_FreshPartitionPerRepetition ==
    \A a, b \in LoopCalls : a # b => cv_calls[a].folds # cv_calls[b].folds

\* C3: in every K-fold partition the test sets are pairwise disjoint, their
\* union is all rows 0..n-1, and each fold's train set is the complement of
\* its test set.
C3_FoldsPartitionTheRows ==
    \A c \in DOMAIN cv_calls :
        LET fs == cv_calls[c].folds
        IN  /\ Len(fs) = cv_calls[c].n_splits
            /\ \A a, b \in DOMAIN fs : a # b => fs[a].test \cap fs[b].test = {}
            /\ UNION {fs[a].test : a \in DOMAIN fs} = Rows(cv_calls[c].n)
            /\ \A a \in DOMAIN fs : fs[a].train = Rows(cv_calls[c].n) \ fs[a].test

C3_Witness ==
    \E c \in LoopCalls :
        /\ cv_calls[c].n % n_splits # 0
        /\ cv_calls[c].n_splits = n_splits

\* C4: two K-fold split calls with the same (rows, seed, k, shuffle) yield the
\* same sequence of (train, test) pairs, whatever the state of the
\* process-wide generator was at either call.
C4_SameSeedSamePartition ==
    \A a, b \in DOMAIN cv_calls :
        SameArguments(cv_calls[a], cv_calls[b]) => cv_calls[a].folds = cv_calls[b].folds

C4_Witness ==
    /\ \E a, b \in LoopCalls : a # b /\ SameArguments(cv_calls[a], cv_calls[b])
    /\ \E a, b \in DOMAIN cv_calls :
          /\ SameArguments(cv_calls[a], cv_calls[b])
          /\ cv_calls[a].global # cv_calls[b].global
    /\ np_random # RandomState(Seed)

\* C5: a fold whose fit or predict fails does not end the run.
C5_FoldFailureDoesNotAbort ==
    raised.kind = "FoldFitFailure" => pc # "aborted"

InSpace(params, space) ==
    /\ DOMAIN params = DOMAIN space
    /\ \A p \in DOMAIN space : space[p].low <= params[p] /\ params[p] <= space[p].high

\* C6: the optimizer evaluates at most n_iter configurations, each inside the
\* declared search space, and best_params is the configuration of the earliest
\* trial whose score no other trial exceeds.
C6_BestOfAtMostTTrials ==
    /\ Len(cv_results) <= n_iter
    /\ \A t \in DOMAIN cv_results : InSpace(cv_results[t].params, param_spaces(script))
    /\ best_params # <<>> =>
          \E b \in DOMAIN cv_results :
              /\ best_params[1] = cv_results[b].params
              /\ \A t \in DOMAIN cv_results : cv_results[t].score <= cv_results[b].score
              /\ \A t \in DOMAIN cv_results :
                    cv_results[t].score = cv_results[b].score => b <= t

C6_Witness ==
    /\ best_params # <<>>
    /\ Len(cv_results) = n_iter
    /\ \E a, b \in DOMAIN cv_results :
          /\ a < b
          /\ cv_results[a].score = cv_results[b].score
          /\ cv_results[a].params # cv_results[b].params
          /\ \A t \in DOMAIN cv_results : cv_results[t].score <= cv_results[a].score

\* C7: no row of the held-out test partition contributes to the scaling
\* statistics.
C7_ScalerFitOnTrainOnly ==
    test_idx # <<>> => scaler \cap Range(test_idx) = {}

\* C8: no estimator object is fitted more than once (every fit of the
\* evaluation loop is on a fresh instance).
C8_FreshModelPerFit ==
    \A a, b \in DOMAIN fit_log : a # b => fit_log[a].obj # fit_log[b].obj

\* the script has not yet entered the evaluation loop
BeforeLoop ==
    pc \in {"scale", "split", "optimize", "final_fit", "evaluate", "export", "kfold"}

\* C9: up to and including the held-out evaluation every fit call is on rows
\* of the train partition only, and the model that predicts the held-out rows
\* was last fitted on exactly the train partition.
C9_NoTestRowFittedBeforeHeldOut ==
    /\ BeforeLoop =>
          \A e \in DOMAIN fit_log :
              /\ fit_log[e].rows \subseteq Range(train_idx)
              /\ fit_log[e].rows \cap Range(test_idx) = {}
    /\ heldout # <<>> =>
          /\ heldout[1].model_rows = heldout[1].train_rows
          /\ heldout[1].train_rows = Range(train_idx)
          /\ heldout[1].model_rows \cap heldout[1].test_rows = {}

C9_Witness ==
    /\ pc = "export"
    /\ heldout # <<>>
    /\ Len(fit_log) = n_iter * cv + 2
    /\ Range(test_idx) # {}

\* C10: after the evaluation loop the optimized model object holds the fit of
\* the last fold of the last repetition, whose train rows include rows of the
\* held-out test partition and are not the train partition; the SHAP
\* explainer is built from that state.
C10_ModelHoldsLastFoldState ==
    LoopSaved =>
        /\ optimized[1].rows = folds[n_splits].train
        /\ optimized[1].rows = metrics["train_rmse"][Len(metrics["train_rmse"])].rows
        /\ metrics["train_rmse"][Len(metrics["train_rmse"])].rep = Repetitions(script) - 1
        /\ metrics["train_rmse"][Len(metrics["train_rmse"])].fold = n_splits - 1
        /\ optimized[1].rows # Range(train_idx)
        /\ optimized[1].rows \cap Range(test_idx) # {}
        /\ explainer # <<>> => explainer[1] = folds[n_splits].train

C10_Witness ==
    /\ pc = "done"
    /\ script = "CatBoost"
    /\ explainer # <<>>
    /\ explainer[1] \cap Range(test_idx) # {}

====
